---- MODULE Spec2Model ----
(***************************************************************************)
(* Model of the leave-day selector (src/public/src/src/App.js).            *)
(*                                                                         *)
(* Representation                                                          *)
(*  - A canonical 'YYYY-MM-DD' string is the number of the calendar day    *)
(*    it names, counted from 2025-06-01 (day 0, a Sunday).  The order of   *)
(*    the strings (the code compares them with <= and >=) is the order of  *)
(*    these numbers.                                                       *)
(*  - A JavaScript Date is its instant in hours since 2025-06-01T00:00Z    *)
(*    (the code's milliseconds, scaled).  The local fields of a Date       *)
(*    (getDay, getDate, getMonth, setDate, new Date(y, m, d)) are read in  *)
(*    the host's time zone, tz hours east of UTC; toISOString is UTC.      *)
(*  - An optional field is <<>> when absent and <<v>> when present.        *)
(*                                                                         *)
(* Scope                                                                   *)
(*  - The state is what the engine and the mutations read and write:       *)
(*    leaveTypes, assignments, history, the clock and the host's time      *)
(*    zone, and the date whose month the calendar shows.  The display      *)
(*    fields color and notes of a leave type and the rest of the view      *)
(*    state (selectedDate, hoveredDate, showManageLeaves, editingLeave)    *)
(*    are left out: picking a date and pressing a button of its modal is   *)
(*    one step, and so is editing a form and pressing Save.                *)
(*  - The time zone has a fixed offset; daylight saving changes within a   *)
(*    run are not modelled.  For the local midnights the code builds, any  *)
(*    offset of -12..0 hours prints the same day as tz = -5 and any offset *)
(*    of 1..14 hours the same day as tz = 2.                               *)
(***************************************************************************)
EXTENDS Integers, Sequences, FiniteSets, TLC

VARIABLES
    tz,           \* host time zone: hours east of UTC (fixed for a run)
    now,          \* the clock: Date.now(), in hours
    leaveTypes,   \* useState<LeaveType[]>
    assignments,  \* useState<Assignment[]>
    history,      \* useState<Assignment[][]>
    currentDate   \* useState(new Date()): a Date of the month the calendar shows

vars == <<tz, now, leaveTypes, assignments, history, currentDate>>

-----------------------------------------------------------------------------
(* Bounds of the model *)

\* assignLeave and removeAssignment are not taken once history holds this many
\* snapshots (the source does not bound the history)
MaxHistory == 2

\* the clock is not advanced beyond this many ticks
MaxTicks == 1

\* "Add Leave Type" is not taken once the list holds this many leave types
MaxLeaveTypes == 3

\* the time zones a run may be in: one west of UTC (US Eastern, winter) and one
\* east of it (Central Europe, summer)
TimeZones == {-5, 2}

-----------------------------------------------------------------------------
(* The calendar of 2025 around June..August, as the host's Date object
   knows it.  Months are numbered as getMonth() does (June = 5). *)

\* day number of the first day of a month (0-based month of 2025)
FirstDayOfMonth(month) ==
    CASE month = 3 -> -61
      [] month = 4 -> -31
      [] month = 5 -> 0
      [] month = 6 -> 30
      [] month = 7 -> 61
      [] month = 8 -> 92
      [] month = 9 -> 122

\* the month a day number falls in
MonthOfDay(day) ==
    IF day < -31 THEN 3
    ELSE IF day < 0 THEN 4
    ELSE IF day < 30 THEN 5
    ELSE IF day < 61 THEN 6
    ELSE IF day < 92 THEN 7
    ELSE 8

\* the local calendar day a Date falls on
LocalDay(date) == (date + tz) \div 24

\* Date.prototype.getDay(): 0 = Sunday .. 6 = Saturday, local time
getDay(date) == LocalDay(date) % 7

\* Date.prototype.getMonth(), local time
getMonth(date) == MonthOfDay(LocalDay(date))

\* Date.prototype.getDate(): day of the month, local time
getDate(date) == LocalDay(date) - FirstDayOfMonth(getMonth(date)) + 1

\* Date.prototype.setDate(n): moves to day n of the Date's local month (n may be
\* 0 or negative, or past the month's end), keeping the local time of day
setDate(date, n) == date + (n - getDate(date)) * 24

\* new Date(year, month, day): local midnight; day 0 is the last day of the
\* month before
NewLocalDate(month, day) == (FirstDayOfMonth(month) + day - 1) * 24 - tz

-----------------------------------------------------------------------------
(* Utility functions *)

formatDate(date) == date \div 24

parseDate(dateStr) == dateStr * 24 - tz

getWeekStart(date) ==
    LET day  == getDay(date)
        diff == getDate(date) - day + (IF day = 0 THEN -6 ELSE 1)
    IN  setDate(date, diff)

getWeekEnd(date) == getWeekStart(date) + 6 * 24

getMonthStart(date) == NewLocalDate(getMonth(date), 1)

getMonthEnd(date) == NewLocalDate(getMonth(date) + 1, 0)

\* a range test that forgets the upper bound
isDateInRangeNoEnd(date, start, end) == date >= start

isDateInRange(date, start, end) == date >= start /\ date <= end

-----------------------------------------------------------------------------
(* Optional fields, arrays *)

IsSet(opt) == opt # <<>>

\* the first element of a list as an optional: with SelectSeq (which is
\* Array.prototype.filter), Array.prototype.find
First(seq) == IF seq = <<>> THEN <<>> ELSE <<Head(seq)>>

-----------------------------------------------------------------------------
(* Quota calculations *)

\* a lookup that falls back on the first leave type of the list
findLeaveTypeOrFirst(lts, leaveTypeId) ==
    LET found == First(SelectSeq(lts, LAMBDA lt : lt.id = leaveTypeId))
    IN  IF found = <<>> /\ lts # <<>> THEN <<Head(lts)>> ELSE found

\* leaveTypes.find(lt => lt.id === leaveTypeId)
findLeaveType(lts, leaveTypeId) ==
    First(SelectSeq(lts, LAMBDA lt : lt.id = leaveTypeId))

\* JavaScript's Infinity, the cap of a quota that is not configured
Infinity == 1000000

\* a - b in JavaScript numbers: Infinity - b is Infinity
Minus(a, b) == IF a = Infinity THEN Infinity ELSE a - b

\* opt?.max ?? Infinity
OrInfinity(opt) == IF IsSet(opt) THEN opt[1] ELSE Infinity

\* the distinct week-start strings of a list of assignments (a Set of strings)
WeekStartsOf(asg) ==
    {formatDate(getWeekStart(parseDate(asg[i].date))) : i \in 1..Len(asg)}

\* an as-of date that is the clock's whatever the caller passes
targetDateNow(clock, targetDate) == clock

\* targetDate ? parseDate(targetDate) : new Date()
targetDateOrNow(clock, targetDate) ==
    IF IsSet(targetDate) THEN parseDate(targetDate[1]) ELSE clock

\* calculateQuotas over explicit state: lts and asg are the leaveTypes and
\* assignments the callback closes over, clock is what new Date() returns,
\* targetDate is optional
calculateQuotasIn(lts, asg, clock, leaveTypeId, targetDate) ==
    LET leaveType == findLeaveType(lts, leaveTypeId)
    IN  IF ~IsSet(leaveType) THEN [used |-> <<>>, remaining |-> <<>>]
        ELSE
        LET quotas           == leaveType[1].rules.quotas
            leaveAssignments == SelectSeq(asg, LAMBDA a : a.leaveTypeId = leaveTypeId)
            targetDateObj    == targetDateOrNow(clock, targetDate)
            weekStartStr     == formatDate(getWeekStart(targetDateObj))
            weekEndStr       == formatDate(getWeekEnd(targetDateObj))
            usedThisWeek     ==
                Len(SelectSeq(leaveAssignments,
                           LAMBDA a : isDateInRange(a.date, weekStartStr, weekEndStr)))
            monthStartStr    == formatDate(getMonthStart(targetDateObj))
            monthEndStr      == formatDate(getMonthEnd(targetDateObj))
            monthlyAssignments ==
                SelectSeq(leaveAssignments,
                       LAMBDA a : isDateInRange(a.date, monthStartStr, monthEndStr))
            weeksUsedThisMonth == Cardinality(WeekStartsOf(monthlyAssignments))
            totalUsed        == Len(leaveAssignments)
        IN  [used |->
                [weekly         |-> usedThisWeek,
                 weeksThisMonth |-> weeksUsedThisMonth,
                 total          |-> totalUsed],
             remaining |->
                [weekly         |-> Minus(OrInfinity(quotas.weekly), usedThisWeek),
                 weeksThisMonth |-> Minus(OrInfinity(quotas.weeks_per_month),
                                          weeksUsedThisMonth),
                 total          |-> Minus(OrInfinity(quotas.total), totalUsed)]]

-----------------------------------------------------------------------------
(* Eligibility check *)

Eligible == [eligible |-> TRUE]

Ineligible(reason) == [eligible |-> FALSE, reason |-> reason]

\* a weeks-per-month check with the comparison turned round
monthlyWeekLimitExceededFlipped(leaveType, asg, date) ==
    /\ IsSet(leaveType.rules.quotas.weeks_per_month)
    /\ LET targetDateObj   == parseDate(date)
           monthStartStr   == formatDate(getMonthStart(targetDateObj))
           monthEndStr     == formatDate(getMonthEnd(targetDateObj))
           monthlyAssignments ==
               SelectSeq(asg, LAMBDA a : /\ a.leaveTypeId = leaveType.id
                                      /\ isDateInRange(a.date, monthStartStr, monthEndStr))
           weeksUsed       == WeekStartsOf(monthlyAssignments)
           targetWeekStart == formatDate(getWeekStart(targetDateObj))
           wouldBeNewWeek  == targetWeekStart \notin weeksUsed
       IN  /\ wouldBeNewWeek
           /\ Cardinality(weeksUsed) <= leaveType.rules.quotas.weeks_per_month[1]

\* a lookup that forgets to compare the leave type
existingAssignmentByDate(asg, leaveTypeId, date) ==
    First(SelectSeq(asg, LAMBDA a : a.date = date))

\* the assignment of this leave type on this date, if any
existingAssignment(asg, leaveTypeId, date) ==
    First(SelectSeq(asg, LAMBDA a : a.date = date /\ a.leaveTypeId = leaveTypeId))

\* whether any assignment is on this date
dateHasAssignment(asg, date) == \E i \in 1..Len(asg) : asg[i].date = date

\* a day-of-week filter that reads the weekday of the Date in UTC (getUTCDay)
dayOfWeekNotAllowedUTC(leaveType, date) ==
    /\ IsSet(leaveType.rules.days_of_week)
    /\ formatDate(parseDate(date)) % 7 \notin leaveType.rules.days_of_week[1]

\* the day-of-week filter is configured and does not hold the date's weekday
dayOfWeekNotAllowed(leaveType, date) ==
    /\ IsSet(leaveType.rules.days_of_week)
    /\ getDay(parseDate(date)) \notin leaveType.rules.days_of_week[1]

\* a weekly check that takes a missing cap for a cap of 0
weeklyQuotaExceededOrZero(leaveType, quotas) ==
    IF IsSet(leaveType.rules.quotas.weekly) THEN quotas.remaining.weekly <= 0
    ELSE 0 - quotas.used.weekly <= 0

weeklyQuotaExceeded(leaveType, quotas) ==
    IsSet(leaveType.rules.quotas.weekly) /\ quotas.remaining.weekly <= 0

totalQuotaExceeded(leaveType, quotas) ==
    IsSet(leaveType.rules.quotas.total) /\ quotas.remaining.total <= 0

\* the weeks-per-month check: the date would open a new week of its month and
\* the month's used weeks have reached the cap
monthlyWeekLimitExceeded(leaveType, asg, date) ==
    /\ IsSet(leaveType.rules.quotas.weeks_per_month)
    /\ LET targetDateObj   == parseDate(date)
           monthStartStr   == formatDate(getMonthStart(targetDateObj))
           monthEndStr     == formatDate(getMonthEnd(targetDateObj))
           monthlyAssignments ==
               SelectSeq(asg, LAMBDA a : /\ a.leaveTypeId = leaveType.id
                                      /\ isDateInRange(a.date, monthStartStr, monthEndStr))
           weeksUsed       == WeekStartsOf(monthlyAssignments)
           targetWeekStart == formatDate(getWeekStart(targetDateObj))
           wouldBeNewWeek  == targetWeekStart \notin weeksUsed
       IN  /\ wouldBeNewWeek
           /\ Cardinality(weeksUsed) >= leaveType.rules.quotas.weeks_per_month[1]

\* quota checks that look at the total quota before the weekly one
checkQuotasTotalFirst(leaveType, lts, asg, clock, date) ==
    LET quotas == calculateQuotasIn(lts, asg, clock, leaveType.id, <<date>>)
    IN  IF totalQuotaExceeded(leaveType, quotas)
            THEN Ineligible("Total quota exceeded")
        ELSE IF weeklyQuotaExceeded(leaveType, quotas)
            THEN Ineligible("Weekly quota exceeded")
        ELSE IF monthlyWeekLimitExceeded(leaveType, asg, date)
            THEN Ineligible("Monthly week limit exceeded")
        ELSE Eligible

\* the quota checks, in the order the code applies them
checkQuotas(leaveType, lts, asg, clock, date) ==
    LET quotas == calculateQuotasIn(lts, asg, clock, leaveType.id, <<date>>)
    IN  IF weeklyQuotaExceeded(leaveType, quotas)
            THEN Ineligible("Weekly quota exceeded")
        ELSE IF totalQuotaExceeded(leaveType, quotas)
            THEN Ineligible("Total quota exceeded")
        ELSE IF monthlyWeekLimitExceeded(leaveType, asg, date)
            THEN Ineligible("Monthly week limit exceeded")
        ELSE Eligible

isLeaveEligibleForDateIn(lts, asg, clock, leaveTypeId, date) ==
    LET leaveType == findLeaveType(lts, leaveTypeId)
    IN  IF ~IsSet(leaveType)
            THEN Ineligible("Leave type not found")
        ELSE IF ~isDateInRange(date, leaveType[1].rules.date_window.start,
                                     leaveType[1].rules.date_window.end)
            THEN Ineligible("Date outside leave window")
        ELSE IF dayOfWeekNotAllowed(leaveType[1], date)
            THEN Ineligible("Day of week not allowed")
        ELSE IF IsSet(existingAssignment(asg, leaveTypeId, date))
            THEN Ineligible("Already assigned")
        ELSE IF dateHasAssignment(asg, date)
            THEN Ineligible("Date already has another leave assigned")
        ELSE checkQuotas(leaveType[1], lts, asg, clock, date)

\* the two callbacks of the component, over its current state
calculateQuotas(leaveTypeId, targetDate) ==
    calculateQuotasIn(leaveTypes, assignments, now, leaveTypeId, targetDate)

isLeaveEligibleForDate(leaveTypeId, date) ==
    isLeaveEligibleForDateIn(leaveTypes, assignments, now, leaveTypeId, date)

-----------------------------------------------------------------------------
(* Calendar grid *)

\* the number of cells of the grid: 6 weeks
GridSize == 42

\* a start that always steps back as getWeekStart does for a Sunday
gridStartSixBack(date) ==
    LET firstDay == NewLocalDate(getMonth(date), 1)
    IN  setDate(firstDay, getDate(firstDay) - getDay(firstDay) - 6)

\* startDate: the first day of the month of the Date shown, moved by
\* setDate(getDate() - getDay() + 1)
gridStart(date) ==
    LET firstDay == NewLocalDate(getMonth(date), 1)
    IN  setDate(firstDay, getDate(firstDay) - getDay(firstDay) + 1)

\* the values currentDateForLoop takes in n iterations, from the Date d on
RECURSIVE loopDates(_, _)
loopDates(d, n) ==
    IF n = 0 THEN <<>>
    ELSE <<d>> \o loopDates(setDate(d, getDate(d) + 1), n - 1)

\* the values of currentDateForLoop for the month shown
loopDatesShown == loopDates(gridStart(currentDate), GridSize)

\* dateStr and isCurrentMonth of one iteration
dateStrOf(d) == formatDate(d)

isCurrentMonth(d) == getMonth(d) = getMonth(currentDate)

\* the DayInfo pushed for one value of currentDateForLoop
dayInfo(d) ==
    LET dateStr == dateStrOf(d)
        eligibleLeaves ==
            SelectSeq(leaveTypes,
                      LAMBDA lt : isLeaveEligibleForDate(lt.id, dateStr).eligible)
    IN  [date           |-> dateStr,
         isCurrentMonth |-> isCurrentMonth(d),
         assignment     |-> First(SelectSeq(assignments,
                                            LAMBDA a : a.date = dateStr)),
         eligibleLeaves |-> [i \in 1..Len(eligibleLeaves) |->
                                eligibleLeaves[i].id]]

calendarDays ==
    LET dates == loopDatesShown
    IN  [i \in 1..GridSize |-> dayInfo(dates[i])]

-----------------------------------------------------------------------------
(* The inputs of the model *)

\* 'YYYY-MM-DD' strings of 2025, as day numbers
Jun(d) == d - 1
Jul(d) == 29 + d
Aug(d) == 60 + d

\* the days the user picks in the calendar: Mon 7 Jul, Tue 8 Jul, Sun 13 Jul (the
\* last day of the week of 7 Jul), Thu 31 Jul and Fri 1 Aug (one week, two months)
ClickDates == {Jul(7), Jul(8), Jul(13), Jul(31), Aug(1)}

\* the days eligibility and quotas are asked about
QueryDates == ClickDates \cup {Jul(2), Jul(9), Jul(14), Jul(30), Aug(3)}

NoQuotas == [weekly |-> <<>>, weeks_per_month |-> <<>>, total |-> <<>>]

LeaveType(id, name, start, end, days, quotas) ==
    [id    |-> id,
     name  |-> name,
     rules |-> [date_window  |-> [start |-> start, end |-> end],
                days_of_week |-> days,
                quotas       |-> quotas]]

\* createSeedLeaveTypes, with the second window cut to the model's calendar
SeedLeaveTypes ==
    << LeaveType("leave-1", "Mother Leave", Jul(3), Aug(2), <<>>,
                 [NoQuotas EXCEPT !.weekly = <<1>>, !.weeks_per_month = <<4>>]),
       LeaveType("leave-2", "Therapy Sessions", Jun(1), Aug(31), <<>>,
                 [NoQuotas EXCEPT !.weekly = <<3>>, !.weeks_per_month = <<2>>]) >>

\* the category lists a run may start from (a saved list, or the seed)
InitialLeaveTypes ==
    { SeedLeaveTypes,
      << LeaveType("leave-1", "Mother Leave", Jul(3), Aug(2), <<{1, 3, 5}>>,
                   [NoQuotas EXCEPT !.weeks_per_month = <<1>>]),
         LeaveType("leave-2", "Therapy Sessions", Jun(1), Aug(31), <<>>, NoQuotas) >>,
      << LeaveType("leave-1", "Mother Leave", Jul(3), Aug(31), <<>>,
                   [NoQuotas EXCEPT !.weekly = <<2>>, !.weeks_per_month = <<1>>,
                                    !.total = <<2>>]),
         LeaveType("leave-2", "Therapy Sessions", Jul(7), Jul(31), <<{0, 1, 4}>>,
                   [NoQuotas EXCEPT !.total = <<1>>]) >> }

\* what the management form may save for a leave type: a window and quotas
FormEdits ==
    { [date_window |-> [start |-> Jul(8), end |-> Jul(31)],
       quotas      |-> [NoQuotas EXCEPT !.weekly = <<1>>]],
      [date_window |-> [start |-> Jul(3), end |-> Aug(2)],
       quotas      |-> [NoQuotas EXCEPT !.weeks_per_month = <<1>>]] }

\* what the management form may hold when Save is pressed: the name and the
\* two bounds of the window as typed, a bound or the name possibly emptied
FormInputs ==
    { [name |-> "Leave", start |-> <<Jul(8)>>,  end |-> <<Jul(31)>>],
      [name |-> "Leave", start |-> <<Jul(31)>>, end |-> <<Jul(8)>>],
      [name |-> "Leave", start |-> <<>>,        end |-> <<Jul(31)>>],
      [name |-> "",      start |-> <<Jul(8)>>,  end |-> <<Jul(31)>>] }

LeaveTypeIds == {"leave-1", "leave-2"}

\* the first instant of a run: Mon 7 Jul 2025, 12:00 UTC
StartInstant == Jul(7) * 24 + 12

-----------------------------------------------------------------------------
(* State *)

\* a run that starts from the saved state of an earlier one: the seeded leave
\* types and an empty list of assignments (the three seed assignments of a
\* first run removed)
Init ==
    /\ tz \in TimeZones
    /\ now = StartInstant
    /\ leaveTypes = SeedLeaveTypes
    /\ assignments = <<>>
    /\ history = <<>>
    /\ currentDate = now

\* a run that starts from a saved list of leave types
InitFixed ==
    /\ tz \in TimeZones
    /\ now = StartInstant
    /\ leaveTypes \in InitialLeaveTypes
    /\ assignments = <<>>
    /\ history = <<>>
    /\ currentDate = now

-----------------------------------------------------------------------------
(* Event handlers *)

assignLeave(date, leaveTypeId) ==
    LET newAssignment == [id          |-> now,
                          date        |-> date,
                          leaveTypeId |-> leaveTypeId,
                          createdAt   |-> now,
                          updatedAt   |-> now]
    IN  /\ history' = Append(history, assignments)
        /\ assignments' = Append(assignments, newAssignment)
        /\ UNCHANGED <<tz, now, leaveTypes, currentDate>>

\* assignments.filter(a => a.id !== assignmentId)
assignmentsWithout(asg, assignmentId) ==
    SelectSeq(asg, LAMBDA a : a.id # assignmentId)

removeAssignment(assignmentId) ==
    /\ history' = Append(history, assignments)
    /\ assignments' = assignmentsWithout(assignments, assignmentId)
    /\ UNCHANGED <<tz, now, leaveTypes, currentDate>>

\* an undo that goes back to the oldest snapshot
undoToFirst ==
    /\ IF Len(history) > 0
          THEN /\ assignments' = history[1]
               /\ history' = SubSeq(history, 1, Len(history) - 1)
          ELSE UNCHANGED <<assignments, history>>
    /\ UNCHANGED <<tz, now, leaveTypes, currentDate>>

undo ==
    /\ IF Len(history) > 0
          THEN /\ assignments' = history[Len(history)]
               /\ history' = SubSeq(history, 1, Len(history) - 1)
          ELSE UNCHANGED <<assignments, history>>
    /\ UNCHANGED <<tz, now, leaveTypes, currentDate>>

deleteLeaveType(leaveId) ==
    /\ leaveTypes' = SelectSeq(leaveTypes, LAMBDA lt : lt.id # leaveId)
    /\ assignments' = SelectSeq(assignments, LAMBDA a : a.leaveTypeId # leaveId)
    /\ UNCHANGED <<tz, now, history, currentDate>>

updateLeaveType(updatedLeave) ==
    /\ leaveTypes' = [i \in 1..Len(leaveTypes) |->
                        IF leaveTypes[i].id = updatedLeave.id THEN updatedLeave
                        ELSE leaveTypes[i]]
    /\ UNCHANGED <<tz, now, assignments, history, currentDate>>

\* the leave type "Add Leave Type" creates: a window of 30 days from today
newLeave ==
    [id    |-> "leave-" \o ToString(now),
     name  |-> "Leave " \o ToString(Len(leaveTypes) + 1),
     rules |-> [date_window  |-> [start |-> formatDate(now),
                                  end   |-> formatDate(now + 30 * 24)],
                days_of_week |-> <<>>,
                quotas       |-> [weekly          |-> <<1>>,
                                  weeks_per_month |-> <<2>>,
                                  total           |-> <<>>]]]

addLeaveType ==
    /\ leaveTypes' = Append(leaveTypes, newLeave)
    /\ UNCHANGED <<tz, now, assignments, history, currentDate>>

\* Save of the form: formData is a leave type whose name and window bounds
\* may be empty (a window bound is <<>> when its input is empty)
handleSave(formData) ==
    IF /\ formData.name # ""
       /\ IsSet(formData.rules.date_window.start)
       /\ IsSet(formData.rules.date_window.end)
        THEN updateLeaveType(
                 [formData EXCEPT !.rules.date_window =
                     [start |-> formData.rules.date_window.start[1],
                      end   |-> formData.rules.date_window.end[1]]])
        ELSE UNCHANGED vars

navigateMonth(direction) ==
    /\ currentDate' = NewLocalDate(getMonth(currentDate) + direction, 1)
    /\ UNCHANGED <<tz, now, leaveTypes, assignments, history>>

-----------------------------------------------------------------------------
(* The user's steps *)

\* a modal that offers every leave type of the list for every date
DateModalOffersAll(date, leaveTypeId) ==
    \E i \in 1..Len(leaveTypes) : leaveTypes[i].id = leaveTypeId

\* the date modal offers a leave type for a date: the date has no assignment and
\* the leave type is one of eligibleLeaves
DateModalOffers(date, leaveTypeId) ==
    /\ ~dateHasAssignment(assignments, date)
    /\ \E i \in 1..Len(leaveTypes) : leaveTypes[i].id = leaveTypeId
    /\ isLeaveEligibleForDate(leaveTypeId, date).eligible

\* pick a date, then one of the leave types the modal offers
AssignLeave ==
    \E date \in ClickDates, leaveTypeId \in LeaveTypeIds :
        /\ Len(history) < MaxHistory
        /\ DateModalOffers(date, leaveTypeId)
        /\ assignLeave(date, leaveTypeId)

\* pick a date that has an assignment, then "Remove Leave"
RemoveAssignment ==
    \E date \in ClickDates :
        /\ Len(history) < MaxHistory
        /\ dateHasAssignment(assignments, date)
        /\ removeAssignment(
              First(SelectSeq(assignments, LAMBDA a : a.date = date))[1].id)

\* the Undo button (rendered while the history is not empty)
Undo == Len(history) > 0 /\ undo

\* "Delete" in the form of a leave type being edited
DeleteLeaveType ==
    \E i \in 1..Len(leaveTypes) : deleteLeaveType(leaveTypes[i].id)

\* "Save" in the form of a leave type being edited, after its window and
\* quotas were changed
UpdateLeaveType ==
    \E i \in 1..Len(leaveTypes), edit \in FormEdits :
        updateLeaveType(
            [leaveTypes[i] EXCEPT !.rules.date_window = edit.date_window,
                                  !.rules.quotas = edit.quotas])

\* "Add Leave Type" in the list of leave types
AddLeaveType ==
    /\ Len(leaveTypes) < MaxLeaveTypes
    /\ addLeaveType

\* "Save" in the form of a leave type being edited, after its name and the
\* bounds of its window were typed over
SaveLeaveType ==
    \E i \in 1..Len(leaveTypes), input \in FormInputs :
        handleSave(
            [leaveTypes[i] EXCEPT !.name = input.name,
                                  !.rules.date_window =
                                      [start |-> input.start, end |-> input.end]])

\* time passes: the clock is read again a week later
Tick ==
    /\ now < StartInstant + MaxTicks * 7 * 24
    /\ now' = now + 7 * 24
    /\ UNCHANGED <<tz, leaveTypes, assignments, history, currentDate>>

\* the months the calendar is turned to: June, July, August 2025
ShownMonths == {5, 6, 7}

\* the arrows beside the month's name
NavigateMonth ==
    \E direction \in {-1, 1} :
        /\ getMonth(currentDate) + direction \in ShownMonths
        /\ navigateMonth(direction)

\* the "Today" button
Today ==
    /\ currentDate' = now
    /\ UNCHANGED <<tz, now, leaveTypes, assignments, history>>

\* the store of leave types and assignments: the mutations of the assignments
\* and of the leave types the engine reads (the calendar's month and the rest
\* of the management form are in NextCalendar and NextManage)
Next ==
    \/ AssignLeave
    \/ RemoveAssignment
    \/ Undo
    \/ DeleteLeaveType
    \/ UpdateLeaveType
    \/ Tick

Spec == Init /\ [][Next]_vars

\* the same program with the category list held fixed
NextFixed ==
    \/ AssignLeave
    \/ RemoveAssignment
    \/ Undo
    \/ Tick

SpecFixed == InitFixed /\ [][NextFixed]_vars

\* the program with its calendar turned, from the seeded leave types
NextCalendar ==
    \/ AssignLeave
    \/ RemoveAssignment
    \/ Undo
    \/ Tick
    \/ NavigateMonth
    \/ Today

SpecCalendar == Init /\ [][NextCalendar]_vars

\* assigning and removing while the leave types are edited
NextEdit ==
    \/ AssignLeave
    \/ RemoveAssignment
    \/ UpdateLeaveType
    \/ Tick

SpecEdit == Init /\ [][NextEdit]_vars

\* managing the leave types: adding them and saving their form
NextManage ==
    \/ AddLeaveType
    \/ SaveLeaveType
    \/ DeleteLeaveType
    \/ Tick

SpecManage == Init /\ [][NextManage]_vars

\* assigning and removing while time passes
NextClock ==
    \/ AssignLeave
    \/ RemoveAssignment
    \/ Tick

SpecClock == Init /\ [][NextClock]_vars

-----------------------------------------------------------------------------
(* The calendar the claims speak of: weeks from Monday to Sunday and calendar
   months of the days themselves, whatever the host's time zone *)

\* the Monday of the week of a day
MondayOf(day) == day - ((day + 6) % 7)

\* weekday of a day, 0 = Sunday .. 6 = Saturday
WeekdayOf(day) == day % 7

\* the assignments of a leave type
AssignmentsOf(leaveTypeId) ==
    {i \in 1..Len(assignments) : assignments[i].leaveTypeId = leaveTypeId}

\* the days of the model's calendar on which an assignment may lie
AllDays == Jun(1)..Aug(31)

-----------------------------------------------------------------------------
(* C1 *)

\* C1: in every reachable state no two assignments of the list have the same date
C1_OneAssignmentPerDate ==
    \A i, j \in 1..Len(assignments) :
        i # j => assignments[i].date # assignments[j].date

\* several assignments are held, after an undo-able history and an edit or a
\* deletion of a leave type
C1_Witness ==
    /\ Len(assignments) >= 2
    /\ Len(history) >= 2
    /\ leaveTypes # SeedLeaveTypes

-----------------------------------------------------------------------------
(* C2 *)

C2_WeeklyRespected(lt) ==
    IsSet(lt.rules.quotas.weekly) =>
        \A day \in AllDays :
            Cardinality({i \in AssignmentsOf(lt.id) :
                            MondayOf(assignments[i].date) = MondayOf(day)})
                <= lt.rules.quotas.weekly[1]

C2_WeeksPerMonthRespected(lt) ==
    IsSet(lt.rules.quotas.weeks_per_month) =>
        \A month \in 5..7 :
            Cardinality({MondayOf(assignments[i].date) :
                            i \in {k \in AssignmentsOf(lt.id) :
                                      MonthOfDay(assignments[k].date) = month}})
                <= lt.rules.quotas.weeks_per_month[1]

C2_TotalRespected(lt) ==
    IsSet(lt.rules.quotas.total) =>
        Cardinality(AssignmentsOf(lt.id)) <= lt.rules.quotas.total[1]

\* C2: with the category list fixed, no configured quota is ever exceeded:
\* per Monday-start week, per calendar month (distinct weeks) and in total
C2_QuotasRespected ==
    \A n \in 1..Len(leaveTypes) :
        /\ C2_WeeklyRespected(leaveTypes[n])
        /\ C2_WeeksPerMonthRespected(leaveTypes[n])
        /\ C2_TotalRespected(leaveTypes[n])

\* what holds of the code: the quotas are respected where the host is not east
\* of UTC (the model's tz = -5)
C2_QuotasRespectedWestOfUTC == tz <= 0 => C2_QuotasRespected

-----------------------------------------------------------------------------
(* C3 *)

\* C3: a date outside a leave type's window is ineligible for it with the
\* outside-window reason, whatever else holds of the date
C3_OutsideWindow ==
    \A n \in 1..Len(leaveTypes), date \in QueryDates :
        LET lt == leaveTypes[n]
        IN  (date < lt.rules.date_window.start \/ date > lt.rules.date_window.end)
                => isLeaveEligibleForDate(lt.id, date)
                     = Ineligible("Date outside leave window")

\* a date outside the window of a leave type that is occupied (by another leave
\* type), on a weekday the filter refuses
C3_Witness ==
    \E n \in 1..Len(leaveTypes), date \in QueryDates :
        LET lt == leaveTypes[n]
        IN  /\ date > lt.rules.date_window.end
            /\ dateHasAssignment(assignments, date)
            /\ IsSet(lt.rules.days_of_week)
            /\ WeekdayOf(date) \notin lt.rules.days_of_week[1]
            /\ isLeaveEligibleForDate(lt.id, date)
                 = Ineligible("Date outside leave window")

-----------------------------------------------------------------------------
(* C4 *)

\* the seven checks of a leave type for a date, in the order claimed: which fail
C4_Failing(lt, date) ==
    LET quotas == calculateQuotas(lt.id, <<date>>)
        If(failed, k) == IF failed THEN {k} ELSE {}
    IN  If(~isDateInRange(date, lt.rules.date_window.start,
                                lt.rules.date_window.end), 1)
        \cup If(dayOfWeekNotAllowed(lt, date), 2)
        \cup If(\E i \in 1..Len(assignments) :
                    /\ assignments[i].date = date
                    /\ assignments[i].leaveTypeId = lt.id, 3)
        \cup If(\E i \in 1..Len(assignments) : assignments[i].date = date, 4)
        \cup If(weeklyQuotaExceeded(lt, quotas), 5)
        \cup If(totalQuotaExceeded(lt, quotas), 6)
        \cup If(monthlyWeekLimitExceeded(lt, assignments, date), 7)

C4_Reasons ==
    << "Date outside leave window",
       "Day of week not allowed",
       "Already assigned",
       "Date already has another leave assigned",
       "Weekly quota exceeded",
       "Total quota exceeded",
       "Monthly week limit exceeded" >>

\* C4: the reason returned is that of the first failing check in the order
\* window, day of week, already assigned, date occupied, weekly, total,
\* weeks per month; the result is eligible, with no reason, exactly when no
\* check fails
C4_FirstFailingCheckDecides ==
    \A n \in 1..Len(leaveTypes), date \in QueryDates :
        LET lt      == leaveTypes[n]
            failing == C4_Failing(lt, date)
            result  == isLeaveEligibleForDate(lt.id, date)
        IN  IF failing = {}
                THEN result = Eligible
                ELSE LET first == CHOOSE k \in failing : \A m \in failing : k <= m
                     IN  result = Ineligible(C4_Reasons[first])

\* a free date inside the window for which the weekly and the total quota both
\* fail, and an occupied date for which they fail too
C4_Witness ==
    /\ \E n \in 1..Len(leaveTypes), d1, d2 \in QueryDates :
            /\ C4_Failing(leaveTypes[n], d1) = {5, 6}
            /\ {3, 4, 5, 6} \subseteq C4_Failing(leaveTypes[n], d2)
    /\ \E n \in 1..Len(leaveTypes), d3 \in QueryDates :
            /\ C4_Failing(leaveTypes[n], d3) = {}
            /\ isLeaveEligibleForDate(leaveTypes[n].id, d3) = Eligible

-----------------------------------------------------------------------------
(* C5 *)

\* the step appends one assignment of leave type A on date D and leaves the
\* leave types alone
AssignStep(D, A) ==
    /\ Len(assignments') = Len(assignments) + 1
    /\ SubSeq(assignments', 1, Len(assignments)) = assignments
    /\ assignments'[Len(assignments')].date = D
    /\ assignments'[Len(assignments')].leaveTypeId = A
    /\ leaveTypes' = leaveTypes

\* C5: when a date D with no assignment is eligible for two distinct leave
\* types A and B, then after assignLeave(D, A) B is refused for D because the
\* date has another leave, and A is refused because it is already assigned
C5_AfterAssign ==
    [][ \A D \in ClickDates, A, B \in LeaveTypeIds :
            ( /\ A # B
              /\ ~dateHasAssignment(assignments, D)
              /\ isLeaveEligibleForDate(A, D).eligible
              /\ isLeaveEligibleForDate(B, D).eligible
              /\ AssignStep(D, A) )
            => /\ isLeaveEligibleForDate(B, D)'
                    = Ineligible("Date already has another leave assigned")
               /\ isLeaveEligibleForDate(A, D)' = Ineligible("Already assigned")
      ]_vars

\* the assignments without the last one
Front(seq) == SubSeq(seq, 1, Len(seq) - 1)

\* the last mutation was assignLeave(D, A), on a date that was eligible for A
\* and for B
C5_Witness ==
    \E D \in ClickDates, A, B \in LeaveTypeIds :
        /\ A # B
        /\ Len(assignments) > 0 /\ Len(history) > 0
        /\ history[Len(history)] = Front(assignments)
        /\ assignments[Len(assignments)].date = D
        /\ assignments[Len(assignments)].leaveTypeId = A
        /\ isLeaveEligibleForDateIn(leaveTypes, Front(assignments), now, A, D).eligible
        /\ isLeaveEligibleForDateIn(leaveTypes, Front(assignments), now, B, D).eligible
        /\ isLeaveEligibleForDate(B, D)
             = Ineligible("Date already has another leave assigned")

-----------------------------------------------------------------------------
(* C6 *)

\* the date is free, inside the leave type's window and on a weekday its
\* filter allows
FreeAndAllowed(lt, date) ==
    /\ ~(\E i \in 1..Len(assignments) : assignments[i].date = date)
    /\ lt.rules.date_window.start <= date /\ date <= lt.rules.date_window.end
    /\ (IsSet(lt.rules.days_of_week)
          => WeekdayOf(date) \in lt.rules.days_of_week[1])

\* the assignments of a leave type in the Monday-to-Sunday week of a date
HeldInWeekOf(lt, date) ==
    Cardinality({i \in AssignmentsOf(lt.id) :
                    MondayOf(assignments[i].date) = MondayOf(date)})

\* C6: for a leave type with weekly.max_days = n and a free, allowed date D
\* inside the window: D is refused with the weekly reason when its
\* Monday-to-Sunday week holds n or more assignments of the leave type, and
\* the weekly check does not refuse D when the week holds fewer
C6_WeeklyBoundary ==
    \A k \in 1..Len(leaveTypes), date \in QueryDates :
        LET lt == leaveTypes[k]
        IN  (IsSet(lt.rules.quotas.weekly) /\ FreeAndAllowed(lt, date)) =>
                IF HeldInWeekOf(lt, date) >= lt.rules.quotas.weekly[1]
                    THEN isLeaveEligibleForDate(lt.id, date)
                            = Ineligible("Weekly quota exceeded")
                    ELSE isLeaveEligibleForDate(lt.id, date)
                            # Ineligible("Weekly quota exceeded")

\* what holds of the code: the same where the host is not east of UTC
C6_WeeklyBoundaryWestOfUTC == tz <= 0 => C6_WeeklyBoundary

-----------------------------------------------------------------------------
(* C7 *)

\* C7: for a leave type C with a weekly quota and a date D eligible for it,
\* assignLeave(D, C) lowers remaining.weekly by exactly 1 for every date of
\* the Monday-to-Sunday week of D, and not below 0
C7_WeeklyRemainingDrops ==
    [][ \A D \in ClickDates, k \in 1..Len(leaveTypes) :
            LET C == leaveTypes[k].id
            IN  ( /\ IsSet(leaveTypes[k].rules.quotas.weekly)
                  /\ isLeaveEligibleForDate(C, D).eligible
                  /\ AssignStep(D, C) )
                => \A D2 \in QueryDates :
                      MondayOf(D2) = MondayOf(D) =>
                        /\ (calculateQuotas(C, <<D2>>).remaining.weekly)'
                             = calculateQuotas(C, <<D2>>).remaining.weekly - 1
                        /\ (calculateQuotas(C, <<D2>>).remaining.weekly)' >= 0
      ]_vars

\* what holds of the code: the same where the host is not east of UTC
C7_WeeklyRemainingDropsWestOfUTC ==
    [][ tz <= 0 =>
          \A D \in ClickDates, k \in 1..Len(leaveTypes) :
            LET C == leaveTypes[k].id
            IN  ( /\ IsSet(leaveTypes[k].rules.quotas.weekly)
                  /\ isLeaveEligibleForDate(C, D).eligible
                  /\ AssignStep(D, C) )
                => \A D2 \in QueryDates :
                      MondayOf(D2) = MondayOf(D) =>
                        /\ (calculateQuotas(C, <<D2>>).remaining.weekly)'
                             = calculateQuotas(C, <<D2>>).remaining.weekly - 1
                        /\ (calculateQuotas(C, <<D2>>).remaining.weekly)' >= 0
      ]_vars

-----------------------------------------------------------------------------
(* C8 *)

\* the Mondays of the weeks that hold an assignment of a leave type dated in
\* a calendar month
WeeksUsedIn(lt, month) ==
    {MondayOf(assignments[i].date) :
        i \in {j \in AssignmentsOf(lt.id) : MonthOfDay(assignments[j].date) = month}}

\* C8: when the assignments of a leave type dated in a month cover
\* max_weeks distinct weeks, a free date of that month in another week is
\* refused with the monthly reason (read: where no earlier check refuses it),
\* and a free date of that month in one of the used weeks is not refused by
\* the weeks-per-month check
C8_WeeksPerMonthBoundary ==
    \A k \in 1..Len(leaveTypes), date \in QueryDates :
        LET lt     == leaveTypes[k]
            used   == WeeksUsedIn(lt, MonthOfDay(date))
            quotas == calculateQuotas(lt.id, <<date>>)
            result == isLeaveEligibleForDate(lt.id, date)
        IN  ( /\ IsSet(lt.rules.quotas.weeks_per_month)
              /\ Cardinality(used) = lt.rules.quotas.weeks_per_month[1]
              /\ FreeAndAllowed(lt, date) )
            => IF MondayOf(date) \in used
                  THEN result # Ineligible("Monthly week limit exceeded")
                  ELSE \/ weeklyQuotaExceeded(lt, quotas)
                       \/ totalQuotaExceeded(lt, quotas)
                       \/ result = Ineligible("Monthly week limit exceeded")

\* what holds of the code: the same where the host is not east of UTC
C8_WeeksPerMonthBoundaryWestOfUTC == tz <= 0 => C8_WeeksPerMonthBoundary

-----------------------------------------------------------------------------
(* C9 *)

QuotaDimensions == {"weekly", "weeks_per_month", "total"}

\* the leave types, with one quota dimension of the k-th removed
WithoutQuota(k, dim) ==
    [leaveTypes EXCEPT ![k].rules.quotas[dim] = <<>>]

\* C9: a leave type without any quota is eligible for every free, allowed
\* date inside its window, whatever assignments it has; and removing one
\* quota dimension from a leave type never makes an eligible date ineligible
C9_MissingQuotaNeverBlocks ==
    \A k \in 1..Len(leaveTypes), date \in QueryDates :
        LET lt == leaveTypes[k]
        IN  /\ (lt.rules.quotas = NoQuotas /\ FreeAndAllowed(lt, date))
                  => isLeaveEligibleForDate(lt.id, date) = Eligible
            /\ isLeaveEligibleForDate(lt.id, date).eligible
                  => \A dim \in QuotaDimensions :
                        isLeaveEligibleForDateIn(WithoutQuota(k, dim), assignments,
                                                 now, lt.id, date) = Eligible

\* a leave type without quotas holds two assignments in one week and is
\* eligible for a third date of that week; and a leave type that has a quota
\* dimension is eligible for a date, with the dimension and without it
C9_Witness ==
    /\ \E k \in 1..Len(leaveTypes), date \in QueryDates :
          LET lt == leaveTypes[k]
          IN  /\ lt.rules.quotas = NoQuotas
              /\ HeldInWeekOf(lt, date) >= 2
              /\ FreeAndAllowed(lt, date)
              /\ isLeaveEligibleForDate(lt.id, date) = Eligible
    /\ \E k \in 1..Len(leaveTypes), date \in QueryDates, dim \in QuotaDimensions :
          /\ IsSet(leaveTypes[k].rules.quotas[dim])
          /\ isLeaveEligibleForDate(leaveTypes[k].id, date).eligible
          /\ isLeaveEligibleForDateIn(WithoutQuota(k, dim), assignments, now,
                                      leaveTypes[k].id, date).eligible

-----------------------------------------------------------------------------
(* C10 *)

\* the ids a caller may pass: those of the model's leave types and one that
\* no leave type ever has
QueryIds == LeaveTypeIds \cup {"leave-0"}

IdsOf(lts) == {lts[i].id : i \in 1..Len(lts)}

\* C10: for an id that is not in the list, isLeaveEligibleForDate answers
\* "Leave type not found" for every date, and calculateQuotas returns its
\* empty result, with or without a target date
C10_UnknownLeaveType ==
    \A id \in QueryIds \ IdsOf(leaveTypes), date \in QueryDates :
        /\ isLeaveEligibleForDate(id, date) = Ineligible("Leave type not found")
        /\ calculateQuotas(id, <<date>>) = [used |-> <<>>, remaining |-> <<>>]
        /\ calculateQuotas(id, <<>>) = [used |-> <<>>, remaining |-> <<>>]

\* an assignment refers to a leave type that was deleted (it came back with
\* undo), while another leave type is still in the list
C10_Witness ==
    \E i \in 1..Len(assignments) :
        /\ assignments[i].leaveTypeId \notin IdsOf(leaveTypes)
        /\ leaveTypes # <<>>
        /\ isLeaveEligibleForDate(assignments[i].leaveTypeId, assignments[i].date)
             = Ineligible("Leave type not found")

-----------------------------------------------------------------------------
(* The calendar grid *)

\* the date strings of the cells of calendarDays, in order
GridDates ==
    LET dates == loopDatesShown
    IN  [i \in 1..GridSize |-> dateStrOf(dates[i])]

\* the isCurrentMonth flags of the cells of calendarDays, in order
GridFlags ==
    LET dates == loopDatesShown
    IN  [i \in 1..GridSize |-> isCurrentMonth(dates[i])]

\* the first day of the month the calendar shows
FirstOfShownMonth == FirstDayOfMonth(getMonth(currentDate))

\* C11: for every month shown, the grid has exactly 42 cells, they hold 42
\* consecutive calendar days in ascending order, and the first cell is the
\* Monday on or before the first day of the month, so that the first day of
\* the month is one of the cells
C11_GridFromMonday ==
    LET dates == GridDates
    IN  /\ Len(loopDatesShown) = 42
        /\ \A i \in 1..41 : dates[i + 1] = dates[i] + 1
        /\ dates[1] = MondayOf(FirstOfShownMonth)
        /\ \E i \in 1..42 : dates[i] = FirstOfShownMonth

\* the same, where the host's time zone is not east of UTC and the month shown
\* does not begin on a Sunday
C11_GridFromMondayElsewhere ==
    (tz <= 0 /\ WeekdayOf(FirstOfShownMonth) # 0) => C11_GridFromMonday

\* the lengths of the runs of FALSE at the two ends of a row of flags
LeadingRunOf(flags) ==
    Cardinality({i \in 1..GridSize : \A j \in 1..i : ~flags[j]})

TrailingRunOf(flags) ==
    Cardinality({i \in 1..GridSize : \A j \in i..GridSize : ~flags[j]})

\* the cells that are not of the month shown are one run of length lead at the
\* start of the grid, one run of length trail at its end, and no others
TwoRuns(flags, lead, trail) ==
    /\ \E i \in 1..GridSize : flags[i]
    /\ \A i \in 1..GridSize :
          flags[i] <=> (i > lead /\ i <= GridSize - trail)

LeadingRun == LeadingRunOf(GridFlags)

TrailingRun == TrailingRunOf(GridFlags)

\* C12 as stated: the cells flagged isCurrentMonth = false form one run at the
\* start of the grid and one at its end, each of length 0 to 6
C12_RunsUpToSix ==
    LET flags == GridFlags
        lead  == LeadingRunOf(flags)
        trail == TrailingRunOf(flags)
    IN  /\ TwoRuns(flags, lead, trail)
        /\ lead \in 0..6
        /\ trail \in 0..6

\* C12: the cells flagged isCurrentMonth = false form one run at the start of
\* the grid, of length 0 to 6, and one run at its end, of length 0 to 15
C12_Runs ==
    LET flags == GridFlags
        lead  == LeadingRunOf(flags)
        trail == TrailingRunOf(flags)
    IN  /\ TwoRuns(flags, lead, trail)
        /\ lead \in 0..6
        /\ trail \in 0..15

\* the calendar was turned to August 2025: 4 cells of July, 7 of September
C12_Witness ==
    /\ currentDate = NewLocalDate(7, 1)
    /\ LeadingRun = 4
    /\ TrailingRun = 7
    /\ calendarDays[5].isCurrentMonth
    /\ ~calendarDays[4].isCurrentMonth

-----------------------------------------------------------------------------
(* Removal *)

\* the (leave type, date) pair is eligible once the assignments with this id
\* are removed
EligibleWithout(assignmentId, leaveTypeId, date) ==
    isLeaveEligibleForDateIn(leaveTypes,
                             assignmentsWithout(assignments, assignmentId),
                             now, leaveTypeId, date).eligible

\* the weeks of the date's month the leave type has used, as calculateQuotas
\* reports them, are not more than its weeks_per_month cap
WithinMonthlyCap(leaveType, date) ==
    IsSet(leaveType.rules.quotas.weeks_per_month)
    => calculateQuotas(leaveType.id, <<date>>).used.weeksThisMonth
           <= leaveType.rules.quotas.weeks_per_month[1]

\* C13 as stated: whatever the leave types and the assignments, every (leave
\* type, date) pair that is eligible stays eligible when an assignment is
\* removed, also where a leave type has used more weeks of a month than its cap
C13_RemovalOnlyLoosens ==
    \A k \in 1..Len(leaveTypes), date \in QueryDates :
        isLeaveEligibleForDate(leaveTypes[k].id, date).eligible
        => \A i \in 1..Len(assignments) :
              EligibleWithout(assignments[i].id, leaveTypes[k].id, date)

\* C13: every (leave type, date) pair that is eligible stays eligible when an
\* assignment is removed, provided the leave type has not used more weeks of
\* the date's month (as calculateQuotas counts them) than its weeks_per_month
\* cap
C13_RemovalLoosensWithinCap ==
    \A k \in 1..Len(leaveTypes), date \in QueryDates :
        (/\ isLeaveEligibleForDate(leaveTypes[k].id, date).eligible
         /\ WithinMonthlyCap(leaveTypes[k], date))
        => \A i \in 1..Len(assignments) :
              EligibleWithout(assignments[i].id, leaveTypes[k].id, date)

\* an assignment was removed, and with the list as it was before, a date of
\* the week of that assignment was eligible for its leave type, whose cap of
\* weeks was reached
C13_Witness ==
    /\ Len(history) > 0
    /\ LET before == history[Len(history)]
       IN  \E i \in 1..Len(before), k \in 1..Len(leaveTypes), date \in QueryDates :
              /\ assignments = assignmentsWithout(before, before[i].id)
              /\ Len(assignments) < Len(before)
              /\ before[i].leaveTypeId = leaveTypes[k].id
              /\ MondayOf(before[i].date) = MondayOf(date)
              /\ IsSet(leaveTypes[k].rules.quotas.weeks_per_month)
              /\ calculateQuotasIn(leaveTypes, before, now, leaveTypes[k].id,
                                   <<date>>).used.weeksThisMonth
                     = leaveTypes[k].rules.quotas.weeks_per_month[1]
              /\ isLeaveEligibleForDateIn(leaveTypes, before, now,
                                          leaveTypes[k].id, date).eligible
              /\ isLeaveEligibleForDate(leaveTypes[k].id, date).eligible

-----------------------------------------------------------------------------
(* Hidden inputs *)

\* the instants the clock of a run may show
Clocks == {StartInstant + k * 7 * 24 : k \in 0..MaxTicks}

\* the calls that pass a date return at this instant what they return now
SameWithDate(clock) ==
    \A leaveTypeId \in QueryIds, date \in QueryDates :
        /\ isLeaveEligibleForDateIn(leaveTypes, assignments, clock,
                                    leaveTypeId, date)
               = isLeaveEligibleForDate(leaveTypeId, date)
        /\ calculateQuotasIn(leaveTypes, assignments, clock, leaveTypeId,
                             <<date>>)
               = calculateQuotas(leaveTypeId, <<date>>)

\* calculateQuotas called without a date returns at this instant what it
\* returns now
SameWithoutDate(clock) ==
    \A leaveTypeId \in QueryIds :
        calculateQuotasIn(leaveTypes, assignments, clock, leaveTypeId, <<>>)
            = calculateQuotas(leaveTypeId, <<>>)

\* C14 as stated: with the same leave types, the same assignments and the same
\* arguments, isLeaveEligibleForDate and calculateQuotas return the same result
\* at whatever instant they are called, also when calculateQuotas is called
\* without an as-of date
C14_NoHiddenInput ==
    \A clock \in Clocks : SameWithDate(clock) /\ SameWithoutDate(clock)

\* C14: with the same leave types, the same assignments and the same
\* arguments, isLeaveEligibleForDate, and calculateQuotas called with an as-of
\* date, return the same result at whatever instant they are called
C14_NoHiddenInputWithDate ==
    \A clock \in Clocks : SameWithDate(clock)

\* the clock has advanced to the next week over an assignment of the week
\* before: for the clock's week the leave type has used nothing, for the date
\* of the assignment it has used a day
C14_Witness ==
    /\ now > StartInstant
    /\ \E i \in 1..Len(assignments) :
          LET a == assignments[i]
          IN  /\ a.createdAt = StartInstant
              /\ IsSet(findLeaveType(leaveTypes, a.leaveTypeId))
              /\ calculateQuotas(a.leaveTypeId, <<>>).used.weekly = 0
              /\ calculateQuotas(a.leaveTypeId, <<a.date>>).used.weekly = 1

-----------------------------------------------------------------------------
(* The window of a leave type *)

\* C15: in every state reached by adding leave types and saving their form,
\* the window of every leave type of the list begins on or before the day it
\* ends
C15_WindowOrdered ==
    \A k \in 1..Len(leaveTypes) :
        leaveTypes[k].rules.date_window.start
            <= leaveTypes[k].rules.date_window.end

\* the same for the leave types as addLeaveType makes them (their form never
\* saved with other bounds)
C15_NewWindowOrdered ==
    \A k \in 1..Len(leaveTypes) :
        leaveTypes[k].name = "Leave " \o ToString(k)
        => leaveTypes[k].rules.date_window.start
               <= leaveTypes[k].rules.date_window.end

-----------------------------------------------------------------------------
(* Deleting a leave type *)

\* C16: in every state reached by assigning, removing, undoing, and deleting
\* and updating leave types, every assignment of the list is of a leave type
\* that is in the list of leave types: the assignments of a deleted leave type
\* are removed and stay removed
C16_NoOrphanAssignments ==
    \A i \in 1..Len(assignments) :
        assignments[i].leaveTypeId \in IdsOf(leaveTypes)

\* right after every step that takes leave types off the list, no assignment
\* of the list is of one of them
C16_DeleteCascades ==
    [][\A i \in 1..Len(assignments') :
          assignments'[i].leaveTypeId
              \notin (IdsOf(leaveTypes) \ IdsOf(leaveTypes'))]_vars

-----------------------------------------------------------------------------
(* The day-of-week filter *)

\* C17: for a leave type with a days_of_week filter, every date inside its
\* window whose weekday (0 = Sunday .. 6 = Saturday) is not in the filter is
\* ineligible with the reason 'Day of week not allowed', whatever the
\* assignments are; for a leave type without a filter no date is ineligible
\* for its weekday
C17_DayOfWeekFilter ==
    \A k \in 1..Len(leaveTypes), date \in QueryDates :
        LET leaveType == leaveTypes[k]
            window    == leaveType.rules.date_window
            result    == isLeaveEligibleForDate(leaveType.id, date)
        IN  IF IsSet(leaveType.rules.days_of_week)
                THEN (/\ window.start <= date
                      /\ date <= window.end
                      /\ WeekdayOf(date) \notin leaveType.rules.days_of_week[1])
                     => result = Ineligible("Day of week not allowed")
                ELSE result # Ineligible("Day of week not allowed")

\* a Tuesday inside the window of a leave type that allows Monday, Wednesday
\* and Friday carries an assignment of another leave type, which has no filter
\* and is eligible on the Wednesday after
C17_Witness ==
    \E k, l \in 1..Len(leaveTypes), i \in 1..Len(assignments) :
        /\ leaveTypes[k].rules.days_of_week = <<{1, 3, 5}>>
        /\ assignments[i].date = Jul(8)
        /\ assignments[i].leaveTypeId = leaveTypes[l].id
        /\ ~IsSet(leaveTypes[l].rules.days_of_week)
        /\ isLeaveEligibleForDate(leaveTypes[k].id, Jul(8))
               = Ineligible("Day of week not allowed")
        /\ isLeaveEligibleForDate(leaveTypes[l].id, Jul(9)).eligible

-----------------------------------------------------------------------------
(* Assignment ids *)

\* C18: in every reachable state the ids of the assignments of the list are
\* pairwise distinct: every assignLeave gives the new assignment an id that no
\* assignment of the list has, also when two assigns read the same clock value
\* or follow an undo
C18_DistinctIds ==
    \A i, j \in 1..Len(assignments) :
        i # j => assignments[i].id # assignments[j].id

\* removeAssignment with the id of an assignment of the list takes exactly
\* one assignment off the list
C18_RemovesOne ==
    \A i \in 1..Len(assignments) :
        Len(assignmentsWithout(assignments, assignments[i].id))
            = Len(assignments) - 1

\* the ids of assignments made at different clock values are distinct
C18_DistinctIdsAcrossTicks ==
    \A i, j \in 1..Len(assignments) :
        (i # j /\ assignments[i].createdAt # assignments[j].createdAt)
            => assignments[i].id # assignments[j].id

-----------------------------------------------------------------------------
(* The weeks a leave type has used in a month *)

\* C19: used.weeksThisMonth of calculateQuotas(C, asOf) is the number of
\* distinct Monday week starts among the assignments of C dated in the calendar
\* month of asOf: a week that straddles two months counts for the month when a
\* day of it inside the month carries an assignment of C, its assignments dated
\* in the adjacent month do not count, and assignments of other leave types
\* never count
C19_WeeksThisMonth ==
    \A k \in 1..Len(leaveTypes), asOf \in QueryDates :
        calculateQuotas(leaveTypes[k].id, <<asOf>>).used.weeksThisMonth
            = Cardinality(WeeksUsedIn(leaveTypes[k], MonthOfDay(asOf)))

\* the same, where the host's time zone is not east of UTC
C19_WeeksThisMonthWestOfUTC == tz <= 0 => C19_WeeksThisMonth

-----------------------------------------------------------------------------
(* Undo *)

\* the step records a mutation: history grows by one snapshot, and that
\* snapshot is the list of assignments as it was before the step
Records == Len(history') = Len(history) + 1

RecordsTheListBefore == history' = Append(history, assignments)

\* the step takes a snapshot off history: the list of assignments becomes the
\* last snapshot, history loses it, and the leave types stay as they are
Restores == Len(history') = Len(history) - 1

RestoresTheLastSnapshot ==
    /\ assignments' = history[Len(history)]
    /\ history' = Front(history)
    /\ leaveTypes' = leaveTypes

\* undo called with an empty history can change neither the assignments, nor
\* history, nor the leave types
UndoOfNothing ==
    history = <<>>
    => ~ENABLED (undo /\ <<assignments, history, leaveTypes>>'
                            # <<assignments, history, leaveTypes>>)

\* C20: undo is the exact inverse of the last recorded mutation.  Every
\* assignLeave and removeAssignment pushes the list it found, and every undo
\* puts back the last list pushed and pops it, without touching the leave
\* types: so k of the former followed by k undos, nothing else in between,
\* end with the list and the history length they began with.  Undo with an
\* empty history changes nothing.
C20_UndoInverts ==
    /\ [][(Records => RecordsTheListBefore)
          /\ (Restores => RestoresTheLastSnapshot)]_vars
    /\ []UndoOfNothing

\* two mutations are recorded, an assignment and its removal: undo once puts
\* the removed assignment back, undo twice ends at the list the two began with
C20_Witness ==
    /\ Len(history) = 2
    /\ Len(history[2]) = Len(history[1]) + 1
    /\ assignments = history[1]
    /\ ENABLED (undo /\ assignments' = history[2] /\ Len(history') = 1)

====
